---- MODULE Spec2Model ----
(***************************************************************************)
(* Model of functions/src/index.ts: a Firebase HTTPS function that         *)
(* rewrites the Tag sequence of Zoho CRM leads, selected by lead id or by  *)
(* phone prefix, and keeps the OAuth access token of the credential record *)
(* (/configurations/zohoConfig) fresh.                                     *)
(*                                                                         *)
(* JavaScript strings are sequences of one-character strings, so that      *)
(* String.prototype.startsWith is a real prefix test.  An absent property  *)
(* of an object is a key missing from the DOMAIN of the record.            *)
(* Every await of the source is a suspension point: a request sits at a    *)
(* pc value while the call is in flight and one action models the          *)
(* continuation that runs when the call returns or fails.                  *)
(***************************************************************************)
EXTENDS Integers, Sequences, FiniteSets, TLC

VARIABLES
    now,          \* Date.now(), in milliseconds
    db,           \* the credential record behind dbRef
    leads,        \* the leads of the CRM, by id
    issued,       \* how many tokens the token endpoint has issued
    responses,    \* the token endpoint's answers, with the time each arrived
    concurrency,  \* how many requests the deployment handles at a time
    req           \* per request: its position (pc), its locals and what it did

vars == <<now, db, leads, issued, responses, concurrency, req>>

----------------------------------------------------------------------------
(* Bounds of the model *)

MaxTime == 3          \* the clock runs from 0 to MaxTime seconds
MaxIssued == 3        \* the token endpoint issues at most MaxIssued tokens
MaxExpiresIn == 2     \* expires_in of a token response, in seconds

(* Program constants *)

MsPerSec == 1000      \* "expires_in * 1000"
OK == 200
BadRequest == 400
ServerError == 500

Reqs == {1, 2}

----------------------------------------------------------------------------
(* JavaScript values *)

Undefined == <<"#undefined">>
UndefinedStr == <<"u", "n", "d", "e", "f", "i", "n", "e", "d">>
EmptyObj == [k \in {} |-> k]

\* obj?.key
Get(obj, key) == IF key \in DOMAIN obj THEN obj[key] ELSE Undefined

\* ToBoolean of a string-or-undefined value
Truthy(v) == v # Undefined /\ v # <<>>

\* ToString applied to the argument of startsWith
ToStr(v) == IF v = Undefined THEN UndefinedStr ELSE v

\* String.prototype.startsWith
startsWith(s, prefix) ==
    LET p == ToStr(prefix)
    IN  Len(p) <= Len(s) /\ SubSeq(s, 1, Len(p)) = p

\* one optional property
Prop(key, v) == IF v = Undefined THEN EmptyObj ELSE key :> v

----------------------------------------------------------------------------
(* The credential record at /configurations/zohoConfig *)

ClientId == <<"i", "d">>
ClientSecret == <<"s", "e", "c">>
AuthorizationCode == <<"c", "o", "d", "e">>
redirectUri == <<"z", "o", "h", "o">>

\* the n-th token the token endpoint issues
AccessTok(n) == <<"a", ToString(n)>>
RefreshTok(n) == <<"r", ToString(n)>>

StaticCredentials ==
    [CLIENT_ID |-> ClientId, CLIENT_SECRET |-> ClientSecret,
     AUTHORIZATION_CODE |-> AuthorizationCode]

\* records the store can hold when the function is deployed: the app
\* registration, with or without tokens of an earlier deployment
InitialRecords ==
    { StaticCredentials @@ Prop("ACCESS_TOKEN", a) @@ Prop("REFRESH_TOKEN", rt) @@ e :
        a \in {Undefined, <<>>, AccessTok(0)},
        rt \in {Undefined, RefreshTok(0)},
        e \in {EmptyObj} \cup { "EXPIRY_TIME" :> t * MsPerSec : t \in 1..2 } }

\* an update whose token expires sooner than the stored one is dropped
updateDbDataNewest(record, updates) ==
    IF "EXPIRY_TIME" \in DOMAIN record
       /\ record.EXPIRY_TIME > updates.EXPIRY_TIME
    THEN record ELSE updates @@ record

\* dbRef.update(updates): merges the given fields only
updateDbData(record, updates) == updates @@ record

\* a token is good up to and including its expiry time
IsStaleStrict(dbData, t) ==
    \/ ~Truthy(Get(dbData, "ACCESS_TOKEN"))
    \/ t > (IF "EXPIRY_TIME" \in DOMAIN dbData THEN dbData.EXPIRY_TIME ELSE 0)

\* every request exchanges
IsStaleAlways(dbData, t) == t >= 0

\* line 118: !dbData?.ACCESS_TOKEN || Date.now() >= (dbData.EXPIRY_TIME || 0)
IsStale(dbData, t) ==
    \/ ~Truthy(Get(dbData, "ACCESS_TOKEN"))
    \/ t >= (IF "EXPIRY_TIME" \in DOMAIN dbData THEN dbData.EXPIRY_TIME ELSE 0)

\* the branches of line 119 swapped
GrantSwapped(dbData) ==
    IF Truthy(Get(dbData, "REFRESH_TOKEN")) THEN "authorization_code"
    ELSE "refresh_token"

\* line 119: which exchange a stale record gets
Grant(dbData) ==
    IF ~Truthy(Get(dbData, "REFRESH_TOKEN")) THEN "authorization_code"
    ELSE "refresh_token"

\* lines 69-75 and 94-99: the form posted to the token endpoint
getAccessTokenPayload(dbData) ==
    [client_id |-> Get(dbData, "CLIENT_ID"),
     client_secret |-> Get(dbData, "CLIENT_ID"),
     redirect_uri |-> redirectUri,
     code |-> Get(dbData, "AUTHORIZATION_CODE"),
     grant_type |-> "authorization_code"]

refreshAccessTokenPayload(dbData) ==
    [client_id |-> Get(dbData, "CLIENT_ID"),
     client_secret |-> Get(dbData, "CLIENT_SECRET"),
     refresh_token |-> Get(dbData, "REFRESH_TOKEN"),
     grant_type |-> "refresh_token"]

Payload(dbData) ==
    IF Grant(dbData) = "authorization_code" THEN getAccessTokenPayload(dbData)
    ELSE refreshAccessTokenPayload(dbData)

\* lines 78-82 and 102-105: the update persisted after an exchange
getAccessTokenUpdates(response, t) ==
    [ACCESS_TOKEN |-> response.access_token,
     REFRESH_TOKEN |-> response.refresh_token,
     EXPIRY_TIME |-> t + response.expires_in * MsPerSec]

\* the refresh stores the response's refresh_token as getAccessToken does
refreshAccessTokenUpdatesAll(response, t) ==
    [ACCESS_TOKEN |-> response.access_token,
     REFRESH_TOKEN |-> Get(response, "refresh_token"),
     EXPIRY_TIME |-> t + response.expires_in * MsPerSec]

\* expires_in taken for milliseconds
refreshAccessTokenUpdatesNoScale(response, t) ==
    [ACCESS_TOKEN |-> response.access_token,
     EXPIRY_TIME |-> t + response.expires_in]

refreshAccessTokenUpdates(response, t) ==
    [ACCESS_TOKEN |-> response.access_token,
     EXPIRY_TIME |-> t + response.expires_in * MsPerSec]

\* the token endpoint's answer to the n-th successful exchange
TokenResponse(grant, n, expiresIn) ==
    [access_token |-> AccessTok(n), expires_in |-> expiresIn]
    @@ (IF grant = "authorization_code" THEN "refresh_token" :> RefreshTok(n)
        ELSE EmptyObj)

\* lines 55-65
generateApiRequestConfig(options, token) ==
    [options |-> options, Authorization |-> token]

----------------------------------------------------------------------------
(* Leads and tags *)

L1 == <<"1">>
L2 == <<"2">>
L3 == <<"3">>
NoLead == <<"9">>
LeadIds == <<L1, L2, L3>>

Phone(id) == IF id = L3 THEN <<"5", "6">> ELSE <<"5", "5">>

TagA == [name |-> <<"a">>]
TagAB == [name |-> <<"a", "b">>]
TagB == [name |-> <<"b">>]

\* Tag fields a lead can start with; EmptyObj: the lead has no Tag field
InitialTags ==
    {EmptyObj} \cup
    { "Tag" :> tags : tags \in {<<TagA, TagB>>, <<TagA, TagB, TagAB>>, <<TagB, TagB>>} }

Lead(id, tagField) == [id |-> id, Phone |-> Phone(id)] @@ tagField

Crm(tagField) ==
    [id \in {L1, L2, L3} |->
        Lead(id, IF id = L1 THEN tagField
                 ELSE IF id = L2 THEN "Tag" :> <<TagA, TagB>> ELSE EmptyObj)]

InitialLeads == { Crm(tagField) : tagField \in InitialTags }

\* only the first matching tag is removed
RECURSIVE filterFirst(_, _)
filterFirst(tags, tagFilter) ==
    IF tags = <<>> THEN <<>>
    ELSE IF ~startsWith(Head(tags).name, tagFilter)
         THEN <<Head(tags)>> \o filterFirst(Tail(tags), tagFilter)
         ELSE Tail(tags)

\* lines 185 and 203: tags.filter((tag) => !tag.name.startsWith(tagFilter))
RECURSIVE filter(_, _)
filter(tags, tagFilter) ==
    IF tags = <<>> THEN <<>>
    ELSE IF ~startsWith(Head(tags).name, tagFilter)
         THEN <<Head(tags)>> \o filter(Tail(tags), tagFilter)
         ELSE filter(Tail(tags), tagFilter)

\* the new tag is not appended when a surviving tag has its name
updatedTagsDedup(lead, tag, tagFilter) ==
    LET tags == IF "Tag" \in DOMAIN lead THEN lead.Tag ELSE <<>>
        kept == filter(tags, tagFilter)
    IN  IF \E i \in DOMAIN kept : kept[i].name = tag THEN kept
        ELSE Append(kept, [name |-> tag])

\* lines 184-186 and 202-204
updatedTags(lead, tag, tagFilter) ==
    LET tags == IF "Tag" \in DOMAIN lead THEN lead.Tag ELSE <<>>
    IN  Append(filter(tags, tagFilter), [name |-> tag])

\* lines 137-176: the request descriptors
findByLeadId(leadId) ==
    [method |-> "GET", url |-> "/Leads/{id}", id |-> leadId]

findByPhone(phonePrefix) ==
    [method |-> "GET", url |-> "/Leads/search", criteria |-> phonePrefix]

\* the tags are posted to the collection, which creates a lead
updateLeadTagPost(leadId, tags) ==
    [method |-> "POST", url |-> "/Leads", id |-> leadId,
     data |-> [data |-> <<[Tag |-> tags]>>]]

updateLeadTag(leadId, tags) ==
    [method |-> "PUT", url |-> "/Leads/{id}", id |-> leadId,
     data |-> [data |-> <<[Tag |-> tags]>>]]

\* What the CRM answers.  A lookup that matches nothing answers with an
\* envelope without data, or with an empty data array.
NoContent == [code |-> "NO_CONTENT"]

RECURSIVE Matching(_, _, _)
Matching(ids, crm, phonePrefix) ==
    IF ids = <<>> THEN <<>>
    ELSE (IF startsWith(crm[Head(ids)].Phone, phonePrefix)
          THEN <<crm[Head(ids)]>> ELSE <<>>)
         \o Matching(Tail(ids), crm, phonePrefix)

CrmGet(crm, options) ==
    LET found == IF options.url = "/Leads/search"
                 THEN Matching(LeadIds, crm, options.criteria)
                 ELSE IF options.id \in DOMAIN crm THEN <<crm[options.id]>>
                 ELSE <<>>
    IN  IF found = <<>> THEN {NoContent, [data |-> <<>>]}
        ELSE {[data |-> found]}

CrmPut(crm, options) ==
    [crm EXCEPT ![options.id] = ("Tag" :> options.data.data[1].Tag) @@ @]

----------------------------------------------------------------------------
(* Inbound requests *)

Body(phone, id, tag, tagFilter) ==
    Prop("phone", phone) @@ Prop("id", id) @@ Prop("tag", tag)
    @@ Prop("tagFilter", tagFilter)

Bodies ==
    { Body(phone, id, tag, <<"a">>) :
        phone \in {Undefined, <<>>, <<"7">>},
        id \in {Undefined, <<>>, NoLead},
        tag \in {Undefined, <<>>, <<"a">>} }
    \cup
    { Body(phone, Undefined, tag, <<"a">>) :
        phone \in {<<"5">>, <<"5", "5">>},
        tag \in {<<"a", "c">>, <<"b">>} }
    \cup
    { Body(Undefined, id, tag, tagFilter) :
        id \in {L1},
        tag \in {<<"a", "c">>, <<"b">>},
        tagFilter \in {Undefined, <<>>, <<"a">>} }

\* the id branch tested before the phone branch
RouteIdFirst(body) ==
    IF Truthy(Get(body, "id")) /\ Truthy(Get(body, "tag")) THEN "id"
    ELSE IF Truthy(Get(body, "phone")) /\ Truthy(Get(body, "tag")) THEN "phone"
    ELSE "none"

\* lines 229-235: which workflow the handler calls
Route(body) ==
    IF Truthy(Get(body, "phone")) /\ Truthy(Get(body, "tag")) THEN "phone"
    ELSE IF Truthy(Get(body, "id")) /\ Truthy(Get(body, "tag")) THEN "id"
    ELSE "none"

\* line 182 as if (!data) return 400
NotFoundByIdAbsentOnly(envelope) == "data" \notin DOMAIN envelope

\* line 199 as if (!data?.[0]) return 400
NotFoundByPhoneEmpty(envelope) ==
    "data" \notin DOMAIN envelope \/ Len(envelope.data) = 0

\* line 182: if (!data?.[0]) return 400
NotFoundById(envelope) ==
    "data" \notin DOMAIN envelope \/ Len(envelope.data) = 0

\* line 199: if (!data) return 400
NotFoundByPhone(envelope) == "data" \notin DOMAIN envelope

\* lines 237-241: the response to a workflow that returned
HttpStatus(status) == IF status = OK THEN OK ELSE BadRequest

Idle ==
    [pc |-> "idle", body |-> EmptyObj, route |-> "none", options |-> EmptyObj,
     dbData |-> EmptyObj, checkedAt |-> 0, dbUpdates |-> EmptyObj,
     config |-> EmptyObj, envelope |-> EmptyObj, data |-> <<>>, idx |-> 0,
     status |-> 0, error |-> "", res |-> 0,
     passes |-> 0, exchanges |-> <<>>, writes |-> 0, calls |-> 0, puts |-> <<>>]

----------------------------------------------------------------------------
(* The state machine *)

InFlight == { r \in Reqs : req[r].pc \notin {"unused", "idle", "done"} }

\* The record with no token yet and a record whose token is still good
FreshRecord == StaticCredentials
GoodRecord ==
    StaticCredentials @@ [ACCESS_TOKEN |-> AccessTok(0),
                          REFRESH_TOKEN |-> RefreshTok(0),
                          EXPIRY_TIME |-> 2 * MsPerSec]

\* One request at a time.  The client sends one request; a by-id request it
\* may send a second time.
Init ==
    /\ now = MsPerSec
    /\ \/ db \in InitialRecords /\ leads = Crm("Tag" :> <<TagA, TagB, TagAB>>)
       \/ db \in {FreshRecord, GoodRecord} /\ leads \in InitialLeads
    /\ issued = 0
    /\ responses = <<>>
    /\ concurrency = 1
    /\ \E body \in Bodies :
         req = [r \in Reqs |->
                   IF r = 1 \/ Route(body) = "id"
                   THEN [Idle EXCEPT !.body = body]
                   ELSE [Idle EXCEPT !.pc = "unused"]]

\* makeApiRequest is left, by return or by throw: its locals are gone
Leave(q) ==
    [q EXCEPT !.options = Idle.options, !.dbData = Idle.dbData,
              !.checkedAt = Idle.checkedAt, !.dbUpdates = Idle.dbUpdates,
              !.config = Idle.config, !.exchanges = Idle.exchanges,
              !.writes = Idle.writes, !.calls = Idle.calls]

\* the token is validated for the first call of a workflow only
makeApiRequestOnce(q, options) ==
    IF q.passes = 0
    THEN [Leave(q) EXCEPT !.pc = "read1", !.options = options, !.passes = @ + 1]
    ELSE [Leave(q) EXCEPT !.pc = "read2", !.options = options, !.passes = @ + 1]

\* line 115: makeApiRequest is entered and readDbData (line 116) is in flight
makeApiRequest(q, options) ==
    [Leave(q) EXCEPT !.pc = "read1", !.options = options, !.passes = @ + 1]

\* a workflow returns `status` to the handler, which responds (lines 237-241)
Return(q, status) ==
    [Leave(q) EXCEPT !.pc = "done", !.status = status,
                     !.res = HttpStatus(status)]

\* a failed CRM call is sent once more with a token read again
RaiseRetry(q) ==
    IF q.pc = "call" /\ q.calls < 2 THEN [q EXCEPT !.pc = "read2"]
    ELSE [Leave(q) EXCEPT !.pc = "done", !.res = ServerError, !.error = "axios"]

\* a failed exchange is posted once more
RaiseRetryExchange(q) ==
    IF q.pc = "exchange" /\ Len(q.exchanges) < 2
    THEN [q EXCEPT !.exchanges = Append(@, Payload(q.dbData))]
    ELSE [Leave(q) EXCEPT !.pc = "done", !.res = ServerError,
                          !.error = "postForm"]

\* a failure restarts the validation pass of the call that failed
RaiseAgain(q) ==
    [Leave(q) EXCEPT !.pc = "read1", !.options = q.options]

\* a failure is re-raised up to the handler's catch (lines 242-245)
Raise(q) ==
    [Leave(q) EXCEPT !.pc = "done", !.res = ServerError,
                     !.error = CASE q.pc \in {"read1", "read2"} -> "readDbData"
                                 [] q.pc = "exchange" -> "postForm"
                                 [] q.pc = "write" -> "updateDbData"
                                 [] OTHER -> "axios"]

\* lines 224-235: a request arrives and is routed
Receive(r) ==
    /\ req[r].pc = "idle"
    /\ Cardinality(InFlight) < concurrency
    /\ \A o \in Reqs : o < r => req[o].pc # "idle"
    /\ LET body == req[r].body
           q == [req[r] EXCEPT !.route = Route(body)]
       IN  req' = [req EXCEPT ![r] =
                 CASE Route(body) = "phone" ->
                        makeApiRequest(q, findByPhone(body.phone))
                   [] Route(body) = "id" ->
                        makeApiRequest(q, findByLeadId(body.id))
                   [] OTHER -> [q EXCEPT !.pc = "done", !.res = BadRequest]]
    /\ UNCHANGED <<now, db, leads, issued, responses, concurrency>>

\* lines 116-124: the first read returns; a stale record starts an exchange
\* (line 76 or line 100 in flight), a fresh one goes on to the re-read
ReadDbData(r) ==
    /\ req[r].pc = "read1"
    /\ LET q == [req[r] EXCEPT !.dbData = db, !.checkedAt = now]
       IN  req' = [req EXCEPT ![r] =
               IF IsStale(db, now)
               THEN [q EXCEPT !.pc = "exchange",
                              !.exchanges = Append(@, Payload(db))]
               ELSE [q EXCEPT !.pc = "read2"]]
    /\ UNCHANGED <<now, db, leads, issued, responses, concurrency>>

\* lines 76-84 and 100-107: the token endpoint answers; the update of the
\* credential record is computed and sent
Exchange(r) ==
    /\ req[r].pc = "exchange"
    /\ issued < MaxIssued
    /\ \E expiresIn \in 1..MaxExpiresIn :
         LET response == TokenResponse(Grant(req[r].dbData), issued + 1, expiresIn)
             dbUpdates == IF Grant(req[r].dbData) = "authorization_code"
                          THEN getAccessTokenUpdates(response, now)
                          ELSE refreshAccessTokenUpdates(response, now)
         IN  /\ req' = [req EXCEPT ![r] =
                    [@ EXCEPT !.pc = "write", !.dbUpdates = dbUpdates]]
         /\ responses' = Append(responses, [response |-> response, at |-> now])
    /\ issued' = issued + 1
    /\ UNCHANGED <<now, db, leads, concurrency>>

\* lines 46-48: the update lands in the store; line 125 in flight
UpdateDbData(r) ==
    /\ req[r].pc = "write"
    /\ db' = updateDbData(db, req[r].dbUpdates)
    /\ req' = [req EXCEPT ![r] = [@ EXCEPT !.pc = "read2", !.writes = @ + 1]]
    /\ UNCHANGED <<now, leads, issued, responses, concurrency>>

\* lines 125-129: the re-read returns and the CRM call is sent
ReReadDbData(r) ==
    /\ req[r].pc = "read2"
    /\ LET config == generateApiRequestConfig(req[r].options,
                                              Get(db, "ACCESS_TOKEN"))
       IN  req' = [req EXCEPT ![r] =
               [@ EXCEPT !.pc = "call", !.config = config, !.calls = @ + 1,
                         !.puts = IF config.options.method = "PUT"
                                  THEN Append(@, config.options) ELSE @]]
    /\ UNCHANGED <<now, db, leads, issued, responses, concurrency>>

\* the search result walked from its end
NextLeadReversed(q, idx) ==
    IF idx > Len(q.data) THEN Return(q, OK)
    ELSE makeApiRequest([q EXCEPT !.idx = idx],
             updateLeadTag(q.data[Len(q.data) - idx + 1].id,
                 updatedTags(q.data[Len(q.data) - idx + 1], Get(q.body, "tag"),
                             Get(q.body, "tagFilter"))))

\* lines 183-187 and 201-208: the lead at position idx of data is rewritten,
\* or the loop is over
NextLead(q, idx) ==
    IF idx > Len(q.data) THEN Return(q, OK)
    ELSE makeApiRequest([q EXCEPT !.idx = idx],
             updateLeadTag(q.data[idx].id,
                 updatedTags(q.data[idx], Get(q.body, "tag"),
                             Get(q.body, "tagFilter"))))

\* lines 181-187: findByLeadId returned
FoundById(r) ==
    /\ req[r].pc = "call"
    /\ req[r].route = "id"
    /\ req[r].config.options.method = "GET"
    /\ \E envelope \in CrmGet(leads, req[r].config.options) :
         LET q == [req[r] EXCEPT !.envelope = envelope,
                                 !.data = Get(envelope, "data")]
         IN  req' = [req EXCEPT ![r] =
                 IF NotFoundById(envelope) THEN Return(q, BadRequest)
                 ELSE NextLead(q, 1)]
    /\ UNCHANGED <<now, db, leads, issued, responses, concurrency>>

\* lines 198-205: findByPhone returned
FoundByPhone(r) ==
    /\ req[r].pc = "call"
    /\ req[r].route = "phone"
    /\ req[r].config.options.method = "GET"
    /\ \E envelope \in CrmGet(leads, req[r].config.options) :
         LET q == [req[r] EXCEPT !.envelope = envelope,
                                 !.data = Get(envelope, "data")]
         IN  req' = [req EXCEPT ![r] =
                 IF NotFoundByPhone(envelope) THEN Return(q, BadRequest)
                 ELSE NextLead(q, 1)]
    /\ UNCHANGED <<now, db, leads, issued, responses, concurrency>>

\* lines 187-188 and 205-208: updateLeadTag returned
Updated(r) ==
    /\ req[r].pc = "call"
    /\ req[r].config.options.method = "PUT"
    /\ leads' = CrmPut(leads, req[r].config.options)
    /\ req' = [req EXCEPT ![r] =
           IF req[r].route = "id" THEN Return(req[r], OK)
           ELSE NextLead(req[r], req[r].idx + 1)]
    /\ UNCHANGED <<now, db, issued, responses, concurrency>>

\* a failed by-phone batch puts the tags of the leads it rewrote back
FailRollback(r) ==
    /\ req[r].pc \in {"read1", "exchange", "write", "read2", "call"}
    /\ req' = [req EXCEPT ![r] = Raise(@)]
    /\ leads' = IF req[r].route = "phone" /\ "data" \in DOMAIN req[r].envelope
                THEN [id \in DOMAIN leads |->
                        IF \E j \in DOMAIN req[r].data : req[r].data[j].id = id
                        THEN req[r].data[CHOOSE j \in DOMAIN req[r].data :
                                             req[r].data[j].id = id]
                        ELSE leads[id]]
                ELSE leads
    /\ UNCHANGED <<now, db, issued, responses, concurrency>>

\* a failed exchange drops the stored access token
FailInvalidate(r) ==
    /\ req[r].pc \in {"read1", "exchange", "write", "read2", "call"}
    /\ req' = [req EXCEPT ![r] = Raise(@)]
    /\ db' = IF req[r].pc \in {"exchange", "write"}
             THEN updateDbData(db, [ACCESS_TOKEN |-> <<>>])
             ELSE db
    /\ UNCHANGED <<now, leads, issued, responses, concurrency>>

\* lines 40-42, 49-51, 85-87, 108-110, 131-133: an external call fails
\* (store read, token endpoint, store write, CRM) and the error is re-raised
Fail(r) ==
    /\ req[r].pc \in {"read1", "exchange", "write", "read2", "call"}
    /\ req' = [req EXCEPT ![r] = Raise(@)]
    /\ UNCHANGED <<now, db, leads, issued, responses, concurrency>>

\* Date.now() advances
Tick ==
    /\ now < MaxTime * MsPerSec
    /\ now' = now + MsPerSec
    /\ UNCHANGED <<db, leads, issued, responses, concurrency, req>>

Next ==
    \/ \E r \in Reqs :
         \/ Receive(r)
         \/ ReadDbData(r)
         \/ Exchange(r)
         \/ UpdateDbData(r)
         \/ ReReadDbData(r)
         \/ FoundById(r)
         \/ FoundByPhone(r)
         \/ Updated(r)
         \/ Fail(r)
    \/ Tick

Spec == Init /\ [][Next]_vars

\* The external call request r is waiting for returns, with a success or
\* with a failure
Step(r) ==
    \/ ReadDbData(r)
    \/ Exchange(r)
    \/ UpdateDbData(r)
    \/ ReReadDbData(r)
    \/ FoundById(r)
    \/ FoundByPhone(r)
    \/ Updated(r)
    \/ Fail(r)

\* Every external call (store, token endpoint, CRM) eventually returns
SpecFair == Init /\ [][Next]_vars /\ \A r \in Reqs : WF_vars(Step(r))

\* A record whose token expires at the first reading of the clock
ExpiredRecord ==
    StaticCredentials @@ [ACCESS_TOKEN |-> AccessTok(0),
                          REFRESH_TOKEN |-> RefreshTok(0),
                          EXPIRY_TIME |-> MsPerSec]

\* a by-id request for lead 1 and a by-phone request that matches lead 3
RaceBodies ==
    <<Body(Undefined, L1, <<"a", "c">>, <<"a">>),
      Body(<<"5", "6">>, Undefined, <<"b">>, <<"a">>)>>

\* Two requests in flight at a time, as two instances of the function that
\* share the credential record and the CRM serve them
InitRace ==
    /\ now = MsPerSec
    /\ db \in {FreshRecord, ExpiredRecord}
    /\ leads = Crm("Tag" :> <<TagA, TagB>>)
    /\ issued = 0
    /\ responses = <<>>
    /\ concurrency = 2
    /\ req = [r \in Reqs |-> [Idle EXCEPT !.body = RaceBodies[r]]]

SpecRace == InitRace /\ [][Next]_vars

----------------------------------------------------------------------------
(* Properties of the token validation at the start of makeApiRequest *)

\* the requests whose current makeApiRequest has made its stale check
Checked == { r \in Reqs : req[r].pc \in {"exchange", "write", "read2", "call"} }

\* the requests whose current makeApiRequest has its token and has sent
\* the CRM call
Sent == { r \in Reqs : req[r].pc = "call" }

HasExpired(dbData, t) ==
    "EXPIRY_TIME" \in DOMAIN dbData /\ dbData.EXPIRY_TIME <= t

\* C1: a record read with expiry_time <= now gets exactly one exchange call
\* before the token is used, the refresh exchange iff the record has a
\* refresh_token, the authorization-code exchange otherwise
C1_OneExchangeWhenExpired ==
    \A r \in Checked :
        LET q == req[r]
        IN  HasExpired(q.dbData, q.checkedAt) =>
              /\ Len(q.exchanges) = 1
              /\ q.exchanges[1].grant_type =
                    (IF "REFRESH_TOKEN" \in DOMAIN q.dbData
                     THEN "refresh_token" ELSE "authorization_code")
              /\ r \in Sent => q.writes = 1

C1_Witness ==
    \E r \in Sent :
        /\ HasExpired(req[r].dbData, req[r].checkedAt)
        /\ Truthy(Get(req[r].dbData, "ACCESS_TOKEN"))
        /\ req[r].exchanges[1].grant_type = "refresh_token"
        /\ req[r].config.Authorization # req[r].dbData.ACCESS_TOKEN

\* C2: a record read with expiry_time > now and a non-empty access_token
\* gets no exchange call and no store write, and the CRM call carries the
\* stored access_token
C2_NoExchangeWhenFresh ==
    \A r \in Checked :
        LET q == req[r]
        IN  ( /\ "EXPIRY_TIME" \in DOMAIN q.dbData
              /\ q.dbData.EXPIRY_TIME > q.checkedAt
              /\ "ACCESS_TOKEN" \in DOMAIN q.dbData
              /\ q.dbData.ACCESS_TOKEN # <<>> ) =>
              /\ q.exchanges = <<>>
              /\ q.writes = 0
              /\ db = q.dbData
              /\ r \in Sent => q.config.Authorization = q.dbData.ACCESS_TOKEN

C2_Witness ==
    \E r \in Sent :
        /\ "EXPIRY_TIME" \in DOMAIN req[r].dbData
        /\ req[r].dbData.EXPIRY_TIME > req[r].checkedAt
        /\ req[r].config.Authorization = AccessTok(0)
        /\ req[r].exchanges = <<>>

\* C3: an exchange is triggered exactly when access_token is absent or
\* empty, or now >= expiry_time with a missing expiry_time read as 0
ClaimedStale(dbData, t) ==
    \/ "ACCESS_TOKEN" \notin DOMAIN dbData
    \/ dbData.ACCESS_TOKEN = <<>>
    \/ "EXPIRY_TIME" \notin DOMAIN dbData /\ t >= 0
    \/ "EXPIRY_TIME" \in DOMAIN dbData /\ t >= dbData.EXPIRY_TIME

C3_StalenessPredicate ==
    \A r \in Checked :
        (req[r].exchanges # <<>>) <=> ClaimedStale(req[r].dbData, req[r].checkedAt)

\* the boundary: a non-empty token whose expiry_time is the current time
C3_Witness ==
    \E r \in Checked :
        /\ Truthy(Get(req[r].dbData, "ACCESS_TOKEN"))
        /\ "EXPIRY_TIME" \in DOMAIN req[r].dbData
        /\ req[r].dbData.EXPIRY_TIME = req[r].checkedAt
        /\ req[r].exchanges # <<>>

----------------------------------------------------------------------------
(* Properties of the tag rewrite *)

\* p is a prefix of s
IsPrefix(p, s) == \E n \in 0..Len(s) : SubSeq(s, 1, n) = p

TagsOf(lead) == IF "Tag" \in DOMAIN lead THEN lead.Tag ELSE <<>>

Finished(r) == req[r].pc = "done" /\ req[r].res = OK

\* both requests ran the by-id workflow to success, one after the other
TwiceById ==
    /\ Finished(1) /\ Finished(2)
    /\ req[1].route = "id" /\ req[2].route = "id"
    /\ req[1].body = req[2].body

\* exactly one tag is named tag, and no other tag starts with tagFilter
OneTagNoMatch(tags, tag, tagFilter) ==
    /\ Cardinality({ i \in DOMAIN tags : tags[i].name = tag }) = 1
    /\ \A i \in DOMAIN tags : IsPrefix(tagFilter, tags[i].name) => tags[i].name = tag

\* C4 as stated: after two successful by-id runs with the same id, tag and
\* tagFilter the lead has exactly one tag named tag and no other tag that
\* starts with tagFilter
C4_Original ==
    (TwiceById /\ "tagFilter" \in DOMAIN req[1].body) =>
        OneTagNoMatch(TagsOf(leads[req[1].body.id]), req[1].body.tag,
                      req[1].body.tagFilter)

\* C4 as amended: the same, for a tag that starts with tagFilter
C4_TwiceWhenTagStartsWithFilter ==
    ( /\ TwiceById
      /\ "tagFilter" \in DOMAIN req[1].body
      /\ IsPrefix(req[1].body.tagFilter, req[1].body.tag) ) =>
        OneTagNoMatch(TagsOf(leads[req[1].body.id]), req[1].body.tag,
                      req[1].body.tagFilter)

C4_Witness ==
    /\ TwiceById
    /\ req[1].body.tag = <<"a", "c">>
    /\ Get(req[1].body, "tagFilter") = <<"a">>
    /\ leads[L1].Tag = <<TagB, [name |-> <<"a", "c">>]>>

\* the positions of tags that tagFilter does not match
Kept(tags, tagFilter) ==
    { i \in DOMAIN tags : ~IsPrefix(tagFilter, tags[i].name) }

\* the k-th smallest element of a set of numbers
Kth(S, k) == CHOOSE i \in S : Cardinality({ j \in S : j < i }) = k - 1

\* out is tags without the tags tagFilter matches, in order, then tag
Rewritten(tags, tag, tagFilter, out) ==
    /\ Len(out) = Cardinality(Kept(tags, tagFilter)) + 1
    /\ out[Len(out)] = [name |-> tag]
    /\ \A k \in 1..(Len(out) - 1) : out[k] = tags[Kth(Kept(tags, tagFilter), k)]

\* the lead the k-th update of request r rewrites, as the lookup returned it
Looked(r, k) == IF req[r].route = "id" THEN req[r].data[1] ELSE req[r].data[k]

\* C5: every Tag sequence written back is the looked-up lead's tags without
\* all tags whose name starts with tagFilter, in their order, followed by
\* {name: tag}, duplicate or not; a lead with no Tag field counts as empty
C5_TagRewriteRule ==
    \A r \in Reqs : \A k \in DOMAIN req[r].puts :
        "tagFilter" \in DOMAIN req[r].body =>
            Rewritten(TagsOf(Looked(r, k)), req[r].body.tag,
                      req[r].body.tagFilter, req[r].puts[k].data.data[1].Tag)

\* two matches removed, and the appended tag duplicates a surviving one
C5_Witness ==
    \E r \in Reqs : \E k \in DOMAIN req[r].puts :
        /\ Get(req[r].body, "tagFilter") = <<"a">>
        /\ TagsOf(Looked(r, k)) = <<TagA, TagB, TagAB>>
        /\ req[r].puts[k].data.data[1].Tag = <<TagB, TagB>>

----------------------------------------------------------------------------
(* Properties of the workflows and of the handler *)

\* C6: a by-id lookup answered without data, or with an empty data array,
\* returns 400 as a value and no update is sent
C6_ByIdNotFound ==
    \A r \in Reqs :
        ( /\ req[r].route = "id"
          /\ \/ req[r].envelope = NoContent
             \/ "data" \in DOMAIN req[r].envelope /\ req[r].envelope.data = <<>> )
        => /\ req[r].pc = "done"
           /\ req[r].status = BadRequest
           /\ req[r].error = ""
           /\ req[r].puts = <<>>
           /\ req[r].passes = 1

C6_Witness ==
    \E r \in Reqs :
        /\ req[r].route = "id"
        /\ "data" \in DOMAIN req[r].envelope /\ req[r].envelope.data = <<>>
        /\ req[r].status = BadRequest

\* C7: the by-phone workflow sends its updates one at a time in the order
\* of the search result, N of them when all succeed and then returns 200;
\* a failure ends the loop and reaches the caller instead of a status
C7_SequentialUpdates ==
    \A r \in Reqs :
        (req[r].route = "phone" /\ "data" \in DOMAIN req[r].envelope) =>
            LET q == req[r]
                N == Len(q.data)
            IN  /\ Len(q.puts) <= N
                /\ \A k \in DOMAIN q.puts : q.puts[k].id = q.data[k].id
                /\ \A k \in 1..(Len(q.puts) - 1) :
                     leads[q.puts[k].id].Tag = q.puts[k].data.data[1].Tag
                /\ q.pc \in {"read1", "exchange", "write", "read2"}
                     => Len(q.puts) = q.idx - 1
                /\ q.pc = "call" => Len(q.puts) = q.idx
                /\ (q.pc = "done" /\ q.error = "")
                     => /\ q.status = OK /\ q.res = OK
                        /\ Len(q.puts) = N
                        /\ \A k \in DOMAIN q.puts :
                             leads[q.puts[k].id].Tag = q.puts[k].data.data[1].Tag
                /\ (q.pc = "done" /\ q.error # "")
                     => /\ q.status = 0 /\ q.res = ServerError
                        /\ Len(q.puts) <= q.idx

\* the second of three updates failed
C7_Witness ==
    \E r \in Reqs :
        /\ req[r].route = "phone"
        /\ "data" \in DOMAIN req[r].envelope /\ Len(req[r].data) = 3
        /\ req[r].pc = "done" /\ req[r].error = "axios"
        /\ Len(req[r].puts) = 2
        /\ leads[L2].Tag = <<TagA, TagB>>

\* C8: a by-phone search answered without data returns 400, one answered
\* with an empty data array returns 200; no update is sent in either case
C8_ByPhoneAbsentOrEmpty ==
    \A r \in Reqs :
        req[r].route = "phone" =>
            /\ req[r].envelope = NoContent
                 => /\ req[r].pc = "done" /\ req[r].status = BadRequest
                    /\ req[r].error = "" /\ req[r].puts = <<>>
            /\ ("data" \in DOMAIN req[r].envelope /\ req[r].envelope.data = <<>>)
                 => /\ req[r].pc = "done" /\ req[r].status = OK
                    /\ req[r].res = OK
                    /\ req[r].error = "" /\ req[r].puts = <<>>

C8_Witness ==
    \E r \in Reqs :
        /\ req[r].route = "phone"
        /\ "data" \in DOMAIN req[r].envelope /\ req[r].envelope.data = <<>>
        /\ req[r].res = OK

Present(body, key) == key \in DOMAIN body
NonEmpty(body, key) == key \in DOMAIN body /\ body[key] # <<>>

Arrived == { r \in Reqs : req[r].pc \notin {"unused", "idle"} }

\* the response is 200 for a workflow that returned 200, 400 for one that
\* returned 400 and 500 for one that raised
StatusMapping(q) ==
    q.pc = "done" =>
        /\ q.res = OK <=> q.status = OK
        /\ q.status = BadRequest => q.res = BadRequest
        /\ q.error # "" <=> q.res = ServerError
        /\ q.route = "none" => q.res = BadRequest /\ q.passes = 0 /\ q.puts = <<>>

\* C9 as stated: phone and tag present route to by-phone, else id and tag
\* present route to by-id, else 400 and nothing is called
C9_Original ==
    \A r \in Arrived :
        LET q == req[r]
        IN  /\ q.route =
                 (IF Present(q.body, "phone") /\ Present(q.body, "tag")
                  THEN "phone"
                  ELSE IF Present(q.body, "id") /\ Present(q.body, "tag")
                  THEN "id" ELSE "none")
            /\ StatusMapping(q)

\* C9 as amended: the same, with present read as present and non-empty
C9_RoutingNonEmpty ==
    \A r \in Arrived :
        LET q == req[r]
        IN  /\ q.route =
                 (IF NonEmpty(q.body, "phone") /\ NonEmpty(q.body, "tag")
                  THEN "phone"
                  ELSE IF NonEmpty(q.body, "id") /\ NonEmpty(q.body, "tag")
                  THEN "id" ELSE "none")
            /\ q.route = "none" => q.pc = "done"
            /\ StatusMapping(q)

\* phone, id and tag all given: the by-phone workflow ran
C9_Witness ==
    \E r \in Arrived :
        /\ NonEmpty(req[r].body, "phone") /\ NonEmpty(req[r].body, "id")
        /\ req[r].route = "phone"
        /\ req[r].pc = "done" /\ req[r].res = OK

\* C10: one makeApiRequest sends at most one CRM call; when the call fails
\* the request ends with the failure, and the step sends nothing more and
\* exchanges no token
C10_NoRetry ==
    /\ [](\A r \in Reqs : req[r].calls <= 1)
    /\ [][\A r \in Reqs :
            (req[r].pc = "call" /\ req'[r].pc # "call") =>
                \/ /\ req'[r].pc = "done" /\ req'[r].error = "axios"
                   /\ req'[r].res = ServerError /\ req'[r].status = 0
                   /\ req'[r].puts = req[r].puts
                   /\ UNCHANGED <<db, leads, issued>>
                \/ req'[r].error = "" /\ UNCHANGED <<db, issued>>]_vars

C10_Witness ==
    \E r \in Reqs :
        /\ req[r].pc = "done" /\ req[r].error = "axios"
        /\ req[r].puts = <<>> /\ req[r].passes = 1

----------------------------------------------------------------------------
(* Properties of the credential record *)

\* the responses that issued the access token `token`
IssuedAs(token) ==
    { n \in DOMAIN responses : responses[n].response.access_token = token }

\* C11: the access_token and the expiry_time of the credential record come
\* from the same exchange response: a stored token that the token endpoint
\* issued is stored with the time of its response plus its expires_in * 1000,
\* also when exchanges of two requests interleave
C11_TokenAndExpiryFromSameResponse ==
    /\ \A n \in IssuedAs(Get(db, "ACCESS_TOKEN")) :
         /\ "EXPIRY_TIME" \in DOMAIN db
         /\ db.EXPIRY_TIME =
              responses[n].at + responses[n].response.expires_in * MsPerSec
    /\ \A r \in Reqs :
         req[r].pc = "write" =>
            \E n \in IssuedAs(req[r].dbUpdates.ACCESS_TOKEN) :
                /\ "EXPIRY_TIME" \in DOMAIN req[r].dbUpdates
                /\ req[r].dbUpdates.EXPIRY_TIME =
                   responses[n].at + responses[n].response.expires_in * MsPerSec

\* two exchanges interleaved: the record holds the first token, written last
C11_Witness ==
    /\ issued = 2
    /\ Get(db, "ACCESS_TOKEN") = AccessTok(1)
    /\ \A r \in Reqs : req[r].writes = 1
    /\ responses[1].at + responses[1].response.expires_in * MsPerSec
         # responses[2].at + responses[2].response.expires_in * MsPerSec

\* the fields an exchange with this grant may write
Written(grant) ==
    IF grant = "refresh_token" THEN {"ACCESS_TOKEN", "EXPIRY_TIME"}
    ELSE {"ACCESS_TOKEN", "REFRESH_TOKEN", "EXPIRY_TIME"}

\* C12: the credential record changes only in the store update of an
\* exchange; a refresh exchange sets access_token and expiry_time and leaves
\* every other field, refresh_token included, as it was; an authorization-code
\* exchange sets access_token, refresh_token and expiry_time only
C12_ExchangeFrame ==
    [][db' # db =>
        \E r \in Reqs :
            /\ req[r].pc = "write" /\ req'[r].pc = "read2"
            /\ \A k \in Written(req[r].exchanges[1].grant_type) :
                 k \in DOMAIN db' /\ db'[k] = req[r].dbUpdates[k]
            /\ \A k \in (DOMAIN db \cup DOMAIN db')
                          \ Written(req[r].exchanges[1].grant_type) :
                 k \in DOMAIN db /\ k \in DOMAIN db' /\ db'[k] = db[k]]_vars

\* a refresh exchange has been stored
C12_Witness ==
    \E r \in Reqs :
        /\ req[r].pc = "read2" /\ req[r].writes = 1
        /\ req[r].exchanges[1].grant_type = "refresh_token"
        /\ db.ACCESS_TOKEN = AccessTok(1)
        /\ db.REFRESH_TOKEN = RefreshTok(0)
        /\ db.CLIENT_SECRET = ClientSecret

\* C13: a failure of the token endpoint, of a store read or of the store
\* write during token validation ends the request with the raised error, and
\* no validation pass posts more than one exchange
C13_ValidationFailurePropagates ==
    /\ [](\A r \in Reqs : Len(req[r].exchanges) <= 1)
    /\ [][\A r \in Reqs :
            ( /\ req[r].pc \in {"read1", "exchange", "write", "read2"}
              /\ req'[r].error # "" ) =>
                /\ req'[r].pc = "done"
                /\ req'[r].res = ServerError /\ req'[r].status = 0
                /\ req'[r].error =
                     (IF req[r].pc = "exchange" THEN "postForm"
                      ELSE IF req[r].pc = "write" THEN "updateDbData"
                      ELSE "readDbData")
                /\ req'[r].puts = req[r].puts
                /\ UNCHANGED <<issued, leads>>]_vars

\* the token endpoint failed the first exchange of a request
C13_Witness ==
    \E r \in Reqs :
        /\ req[r].pc = "done" /\ req[r].error = "postForm"
        /\ req[r].res = ServerError
        /\ issued = 0 /\ req[r].passes = 1

----------------------------------------------------------------------------
(* Properties of interleaved requests *)

\* C14: nothing serialises the exchanges of two requests: a request whose
\* read found the record stale posts an exchange whatever the other request
\* is doing, and each store update overwrites the token in the record,
\* whichever token the endpoint issued later
C14_LastWriteWins ==
    [][\A r \in Reqs :
         /\ (req[r].pc = "read1" /\ req'[r].pc \notin {"read1", "done"}) =>
               (req'[r].pc = "exchange" <=> ClaimedStale(db, now))
         /\ (req[r].pc = "write" /\ req'[r].pc = "read2") =>
               /\ db'.ACCESS_TOKEN = req[r].dbUpdates.ACCESS_TOKEN
               /\ db'.EXPIRY_TIME = req[r].dbUpdates.EXPIRY_TIME]_vars

\* both requests read the same stale record and both exchanged; the update
\* with the first token landed last, and a CRM call carries that token
\* although the endpoint has issued a later one
C14_Witness ==
    \E r \in Reqs : \E o \in Reqs \ {r} :
        /\ req[r].pc = "call" /\ req[o].pc \in {"read2", "call"}
        /\ req[r].dbData = req[o].dbData
        /\ ClaimedStale(req[r].dbData, req[r].checkedAt)
        /\ ClaimedStale(req[o].dbData, req[o].checkedAt)
        /\ req[r].writes = 1 /\ req[o].writes = 1
        /\ issued = 2
        /\ req[r].dbUpdates.ACCESS_TOKEN = AccessTok(1)
        /\ req[o].dbUpdates.ACCESS_TOKEN = AccessTok(2)
        /\ db.ACCESS_TOKEN = AccessTok(1)
        /\ req[r].config.Authorization = AccessTok(1)

----------------------------------------------------------------------------
(* Properties of a failed batch and of the calls sent to the CRM *)

\* the by-phone requests that failed while rewriting the lead at idx
FailedInBatch ==
    { r \in Reqs : /\ req[r].route = "phone"
                   /\ "data" \in DOMAIN req[r].envelope
                   /\ req[r].pc = "done" /\ req[r].error # "" }

\* C15: when the update of the k-th matched lead fails, leads 1..k-1 keep
\* the tags written to them, leads k..N are as the search returned them, and
\* no further call is sent
C15_NoRollback ==
    \A r \in FailedInBatch :
        LET q == req[r]
        IN  /\ Len(q.puts) \in {q.idx - 1, q.idx}
            /\ \A j \in DOMAIN q.data :
                 /\ j < q.idx =>
                      leads[q.data[j].id].Tag = q.puts[j].data.data[1].Tag
                 /\ j >= q.idx => leads[q.data[j].id] = q.data[j]

\* the third of three updates failed after two were applied
C15_Witness ==
    \E r \in FailedInBatch :
        /\ Len(req[r].data) = 3 /\ req[r].idx = 3
        /\ req[r].error = "axios"
        /\ leads[L1] # req[r].data[1] /\ leads[L2] # req[r].data[2]
        /\ leads[L3] = req[r].data[3]

\* options is PUT /Leads/{id} with body {data: [{Tag: tags}]}
IsTagUpdate(options, id) ==
    /\ options.method = "PUT" /\ options.url = "/Leads/{id}"
    /\ options.id = id
    /\ DOMAIN options.data = {"data"}
    /\ Len(options.data.data) = 1
    /\ DOMAIN options.data.data[1] = {"Tag"}

\* C16: every update targets a lead of the lookup of the same run, the
\* first one for by-id and each one once for by-phone; a call that is not a
\* lookup is PUT /Leads/{id} with body {data: [{Tag: tags}]}; the leads of
\* the CRM stay the same leads, with their id and Phone
C16_OnlyTagsOfFoundLeads ==
    /\ \A r \in Reqs :
         LET q == req[r]
         IN  /\ \A k \in DOMAIN q.puts : IsTagUpdate(q.puts[k], Looked(r, k).id)
             /\ q.route = "id" => Len(q.puts) <= 1
             /\ \A j \in DOMAIN q.puts : \A k \in DOMAIN q.puts :
                  j # k => q.puts[j].id # q.puts[k].id
             /\ q.pc = "call" =>
                  \/ q.config.options.method = "GET" /\ q.passes = 1
                  \/ /\ q.passes > 1 /\ Len(q.puts) = q.passes - 1
                     /\ q.config.options = q.puts[Len(q.puts)]
    /\ DOMAIN leads = {L1, L2, L3}
    /\ \A id \in DOMAIN leads :
         /\ leads[id].id = id /\ leads[id].Phone = Phone(id)
         /\ DOMAIN leads[id] \subseteq {"id", "Phone", "Tag"}

\* a by-phone run has sent its third update, to the third lead found
C16_Witness ==
    \E r \in Reqs :
        /\ req[r].route = "phone" /\ req[r].pc = "call"
        /\ Len(req[r].puts) = 3
        /\ req[r].config.options.id = req[r].data[3].id
        /\ req[r].config.options.method = "PUT"

----------------------------------------------------------------------------
(* Properties of the forms posted to the token endpoint *)

\* C17: the authorization-code exchange posts the record's client_id and
\* client_secret with redirect_uri, code = authorization_code and grant_type
\* "authorization_code"; the refresh exchange posts the record's client_id,
\* client_secret and refresh_token with grant_type "refresh_token"
C17_ExchangePayloads ==
    \A r \in Reqs : \A k \in DOMAIN req[r].exchanges :
        LET payload == req[r].exchanges[k]
            dbData == req[r].dbData
        IN  /\ payload.client_id = dbData.CLIENT_ID
            /\ payload.client_secret = dbData.CLIENT_SECRET
            /\ payload.grant_type = "authorization_code" =>
                 /\ DOMAIN payload = {"client_id", "client_secret",
                                      "redirect_uri", "code", "grant_type"}
                 /\ payload.redirect_uri = redirectUri
                 /\ payload.code = dbData.AUTHORIZATION_CODE
            /\ payload.grant_type = "refresh_token" =>
                 /\ DOMAIN payload = {"client_id", "client_secret",
                                      "refresh_token", "grant_type"}
                 /\ payload.refresh_token = dbData.REFRESH_TOKEN

----------------------------------------------------------------------------
(* Properties of the validation passes of a workflow *)

\* C18: each CRM call has its own validation pass: when a call is in flight
\* the record was read and checked for it, a record found stale was
\* exchanged and stored first, and the call carries the access_token of the
\* store; the k-th call of a workflow is sent in its k-th pass, so a run
\* over N leads that returns 200 has made N + 1 passes
C18_ValidationPerCall ==
    \A r \in Reqs :
        LET q == req[r]
        IN  /\ Len(q.exchanges) <= 1
            /\ q.pc = "call" =>
                 /\ "CLIENT_ID" \in DOMAIN q.dbData
                 /\ q.calls = 1
                 /\ q.passes = Len(q.puts) + 1
                 /\ ClaimedStale(q.dbData, q.checkedAt) =>
                      /\ Len(q.exchanges) = 1 /\ q.writes = 1
                      /\ q.config.Authorization = q.dbUpdates.ACCESS_TOKEN
                 /\ q.config.Authorization = Get(db, "ACCESS_TOKEN")
            /\ (q.route = "phone" /\ "data" \in DOMAIN q.envelope) =>
                 /\ q.passes <= Len(q.data) + 1
                 /\ (q.pc = "done" /\ q.status = OK) =>
                      q.passes = Len(q.data) + 1
            /\ q.route = "id" => q.passes <= 2

\* the token went stale in the middle of a batch: the first two calls went
\* out with the token of the initial record, the third waited for an exchange
C18_Witness ==
    \E r \in Reqs :
        /\ req[r].route = "phone" /\ req[r].pc = "call"
        /\ Len(req[r].puts) = 2
        /\ req[r].dbData.ACCESS_TOKEN = AccessTok(0)
        /\ issued = 1 /\ req[r].writes = 1
        /\ req[r].config.Authorization = AccessTok(1)

\* C19: while the exchange of a stale token is under way (token endpoint
\* called, or the new token being written) the store still holds the record
\* that was read and no CRM call of this pass has been sent; when the
\* exchange fails, the store and the CRM are left as they were and the
\* request ends with the failure, its CRM call never sent
C19_FailedExchangeLeavesRecord ==
    /\ [](\A r \in Reqs :
            req[r].pc \in {"exchange", "write"} =>
                /\ db = req[r].dbData
                /\ req[r].calls = 0)
    /\ [][\A r \in Reqs :
            (/\ req[r].pc \in {"exchange", "write"}
             /\ req'[r].error # "") =>
                /\ db' = db
                /\ leads' = leads
                /\ req'[r].pc = "done"
                /\ req'[r].res = ServerError
                /\ req'[r].puts = req[r].puts]_vars

\* the endpoint issued a token but the write failed: the store still holds
\* the token of the initial record and nothing was sent to the CRM
C19_Witness ==
    \E r \in Reqs :
        /\ req[r].pc = "done" /\ req[r].error = "updateDbData"
        /\ req[r].passes = 1 /\ req[r].puts = <<>>
        /\ issued = 1
        /\ Get(db, "ACCESS_TOKEN") = AccessTok(0)
        /\ "EXPIRY_TIME" \in DOMAIN db /\ db.EXPIRY_TIME = MsPerSec

----------------------------------------------------------------------------
(* Termination *)

\* one of 200, 400 or a raised failure, and only one
Outcome(q) ==
    \/ q.res = OK /\ q.status = OK /\ q.error = ""
    \/ q.res = BadRequest /\ q.status # OK /\ q.error = ""
    \/ q.res = ServerError /\ q.error # ""

\* C20: provided every external call returns, a request that was received
\* ends: the by-id workflow after at most 2 CRM calls, the by-phone workflow
\* after at most 1 + N for N matched leads, with exactly one of 200, 400 or
\* a raised failure; once it has ended nothing of it runs again
C20_Terminates ==
    /\ [](\A r \in Reqs :
            LET q == req[r]
            IN  /\ q.route = "id" => q.passes <= 2 /\ Len(q.puts) <= 1
                /\ q.route = "phone" =>
                     /\ Len(q.puts) <= Len(q.data)
                     /\ q.passes <= 1 + Len(q.data)
                     /\ "data" \notin DOMAIN q.envelope => q.passes <= 1
                /\ q.pc = "done" => Outcome(q))
    /\ [][\A r \in Reqs : req[r].pc = "done" => req'[r] = req[r]]_vars
    /\ \A r \in Reqs : (r \in InFlight) ~> (req[r].pc = "done")

\* a by-phone run over three leads has ended with 200 after four CRM calls
C20_Witness ==
    \E r \in Reqs :
        /\ req[r].pc = "done" /\ req[r].route = "phone"
        /\ req[r].res = OK
        /\ Len(req[r].data) = 3 /\ Len(req[r].puts) = 3
        /\ req[r].passes = 4

====
